---- MODULE Spec2Model ----
(***************************************************************************)
(* Model of Weather_data_project.py: a script that fetches the current     *)
(* weather of each city of a fixed registry, builds one record per usable  *)
(* response, turns the records into a table, draws six panels, saves the   *)
(* image and prints summary statistics.                                    *)
(*                                                                         *)
(* Numbers.  The API reports temperature and wind speed with a resolution  *)
(* of 0.1; every measurement is held here as an integer count of 0.05      *)
(* (15.0 degrees is 300, 4.0 m/s is 80), so that `x * 0.5` of a reported   *)
(* value is an integer again.  Latitudes and longitudes are counts of      *)
(* 0.0001 degrees.  Table positions are 1-based (pandas labels are         *)
(* 0-based).                                                               *)
(***************************************************************************)
EXTENDS Integers, Sequences, FiniteSets, TLC

VARIABLES pc, city_index, requested, outcomes, weather_data, df, df_sorted,
          panels, image_saved, summary

vars == <<pc, city_index, requested, outcomes, weather_data, df, df_sorted,
          panels, image_saved, summary>>

\* Number of registry entries the model iterates over (a prefix of `cities`).
NumCities == 3

\* Condition codes over which get_weather_description is examined.
MaxCode == 100

cities ==
  << [name |-> "London",    lat |-> 515074,  lon |-> -1278],
     [name |-> "New York",  lat |-> 407128,  lon |-> -740060],
     [name |-> "Tokyo",     lat |-> 356762,  lon |-> 1396503],
     [name |-> "Paris",     lat |-> 488566,  lon |-> 23522],
     [name |-> "Sydney",    lat |-> -338688, lon |-> 1512093],
     [name |-> "Mumbai",    lat |-> 190760,  lon |-> 728777],
     [name |-> "Dubai",     lat |-> 252048,  lon |-> 552708],
     [name |-> "Singapore", lat |-> 13521,   lon |-> 1038198],
     [name |-> "Berlin",    lat |-> 525200,  lon |-> 134050],
     [name |-> "Toronto",   lat |-> 436532,  lon |-> -793832] >>

\* The part of the registry the loop runs over.
Registry == SubSeq(cities, 1, IF NumCities < Len(cities) THEN NumCities ELSE Len(cities))

weather_codes ==
  (0 :> "Clear sky") @@ (1 :> "Mainly clear") @@ (2 :> "Partly cloudy") @@
  (3 :> "Overcast") @@ (45 :> "Foggy") @@ (48 :> "Foggy") @@
  (51 :> "Light drizzle") @@ (53 :> "Moderate drizzle") @@
  (55 :> "Dense drizzle") @@ (61 :> "Slight rain") @@
  (63 :> "Moderate rain") @@ (65 :> "Heavy rain") @@
  (71 :> "Slight snow") @@ (73 :> "Moderate snow") @@ (75 :> "Heavy snow") @@
  (77 :> "Snow grains") @@ (80 :> "Slight rain showers") @@
  (81 :> "Moderate rain showers") @@ (82 :> "Violent rain showers") @@
  (85 :> "Slight snow showers") @@ (86 :> "Heavy snow showers") @@
  (95 :> "Thunderstorm") @@ (96 :> "Thunderstorm with hail") @@
  (99 :> "Thunderstorm with hail")

\* dict.get(key, default)
DictGet(d, k, default) == IF k \in DOMAIN d THEN d[k] ELSE default

get_weather_description_foggy_split(code) ==
  IF code = 48 THEN "Depositing rime fog"
  ELSE IF code \in DOMAIN weather_codes THEN weather_codes[code] ELSE "Unknown"

get_weather_description(code) == DictGet(weather_codes, code, "Unknown")

(***************************************************************************)
(* The environment: what one GET can come back with.                       *)
(***************************************************************************)
EmptyDict == [k \in {} |-> 0]

Fields == {"temperature_2m", "relative_humidity_2m", "wind_speed_10m", "weather_code"}

FullCurrent(t, h, w, c) ==
  [temperature_2m |-> t, relative_humidity_2m |-> h,
   wind_speed_10m |-> w, weather_code |-> c]

Without(d, k) == [x \in (DOMAIN d) \ {k} |-> d[x]]

\* "current" sections of conforming responses: complete ones (negative and
\* positive temperatures, zero and non-zero wind, known and unknown codes),
\* ones lacking a field, and an empty one.
CurrentSections ==
  { FullCurrent(t, 1000, w, 0) : t \in {-40, 300}, w \in {0, 80} }
    \cup { FullCurrent(300, 1800, 80, 45), FullCurrent(-40, 1400, 0, 96),
           FullCurrent(300, 1000, 0, 7) }
    \cup { Without(FullCurrent(300, 1000, 80, 3), k) : k \in Fields }
    \cup { EmptyDict }

\* JSON bodies of a 2xx response: {} , a body with no "current" key, and
\* bodies with one.
Bodies ==
  { EmptyDict, [timezone |-> "GMT"] } \cup { [current |-> c] : c \in CurrentSections }

\* Outcome of requests.get + raise_for_status + json: an exception of the
\* RequestException family, or a parsed body.
Responses ==
  { [ok |-> FALSE, body |-> EmptyDict] } \cup { [ok |-> TRUE, body |-> b] : b \in Bodies }

\* fetch_weather_data: the parsed body, or None after the except branch.
fetch_weather_data(r) ==
  IF r.ok THEN [none |-> FALSE, json |-> r.body]
          ELSE [none |-> TRUE,  json |-> EmptyDict]

\* Python truth value of `data`: None and {} are false.
Truthy(data) == ~data.none /\ DOMAIN data.json # {}

HasObservationNoKeyCheck(data) == Truthy(data)

HasObservationStrict(data) ==
  /\ Truthy(data)
  /\ "current" \in DOMAIN data.json
  /\ Fields \subseteq DOMAIN data.json.current

\* `if data and 'current' in data`
HasObservation(data) == Truthy(data) /\ "current" \in DOMAIN data.json

\* x * 0.5 on a count of 0.05
Half(x) == x \div 2

wind_chill_no_factor(wind) == wind

\* wind_chill = weather_info['Wind Speed (m/s)'] * 0.5
wind_chill(wind) == Half(wind)

WeatherOfNoDefault(current) ==
  IF "weather_code" \in DOMAIN current
    THEN get_weather_description(current["weather_code"]) ELSE "Unknown"

\* 'Weather': get_weather_description(current.get('weather_code', 0))
WeatherOf(current) == get_weather_description(DictGet(current, "weather_code", 0))

\* weather_info, with 'Feels Like' added
BuildRecord(city_info, current) ==
  LET t == DictGet(current, "temperature_2m", 0)
      w == DictGet(current, "wind_speed_10m", 0)
  IN [City        |-> city_info.name,
      Temperature |-> t,
      Humidity    |-> DictGet(current, "relative_humidity_2m", 0),
      WindSpeed   |-> w,
      WeatherCode |-> DictGet(current, "weather_code", 0),
      Weather     |-> WeatherOf(current),
      Latitude    |-> city_info.lat,
      Longitude   |-> city_info.lon,
      FeelsLike   |-> t - wind_chill(w)]

weather_data_insert_front(table, weather_info) == <<weather_info>> \o table

\* weather_data.append(weather_info)
weather_data_append(table, weather_info) == Append(table, weather_info)

NoSummary == [computed |-> FALSE]

Init ==
  /\ pc = "loop"
  /\ city_index = 0
  /\ requested = <<>>
  /\ outcomes = <<>>
  /\ weather_data = <<>>
  /\ df = <<>>
  /\ df_sorted = <<>>
  /\ panels = <<>>
  /\ image_saved = FALSE
  /\ summary = NoSummary

NextIndexRetryOnError(i, data) == IF data.none THEN i ELSE i + 1

\* the for loop moves to the next city whatever the fetch returned
NextIndex(i, data) == i + 1

\* Loop head and the call into fetch_weather_data up to the blocking GET.
FetchRequest ==
  /\ pc = "loop"
  /\ city_index < Len(Registry)
  /\ requested' = Append(requested, Registry[city_index + 1].name)
  /\ pc' = "awaiting"
  /\ UNCHANGED <<city_index, outcomes, weather_data, df, df_sorted, panels,
                 image_saved, summary>>

\* The GET resolves with r; rest of fetch_weather_data and of the loop body.
FetchResolve(r) ==
  /\ pc = "awaiting"
  /\ LET city_info == Registry[city_index + 1]
         data == fetch_weather_data(r)
     IN /\ outcomes' = Append(outcomes, r)
        /\ IF HasObservation(data)
             THEN IF "current" \in DOMAIN data.json
                    THEN /\ weather_data' =
                              weather_data_append(weather_data,
                                                  BuildRecord(city_info, data.json["current"]))
                         /\ city_index' = NextIndex(city_index, data)
                         /\ pc' = "loop"
                    ELSE \* data['current'] raises KeyError
                         /\ pc' = "crashed"
                         /\ UNCHANGED <<weather_data, city_index>>
             ELSE /\ weather_data' = weather_data
                  /\ city_index' = NextIndex(city_index, data)
                  /\ pc' = "loop"
  /\ UNCHANGED <<requested, df, df_sorted, panels, image_saved, summary>>

(***************************************************************************)
(* Table helpers (pandas Series / DataFrame operations used by the script) *)
(***************************************************************************)
\* df[col] as a sequence in table order
Column(d, col) == [i \in 1..Len(d) |-> d[i][col]]

RECURSIVE SeqSum(_)
SeqSum(s) == IF s = <<>> THEN 0 ELSE Head(s) + SeqSum(Tail(s))

\* Series.mean(): sum over count, kept as the exact fraction
SeriesMean(s) == [sum |-> SeqSum(s), count |-> Len(s)]

RECURSIVE ArgMaxScanLast(_, _, _)
ArgMaxScanLast(s, i, best) ==
  IF i > Len(s) THEN best
  ELSE ArgMaxScanLast(s, i + 1, IF s[i] >= s[best] THEN i ELSE best)

idxmax_last(s) == ArgMaxScanLast(s, 2, 1)

RECURSIVE ArgMaxScan(_, _, _)
ArgMaxScan(s, i, best) ==
  IF i > Len(s) THEN best
  ELSE ArgMaxScan(s, i + 1, IF s[i] > s[best] THEN i ELSE best)

\* Series.idxmax(): position of the first occurrence of the maximum
idxmax(s) == ArgMaxScan(s, 2, 1)

RECURSIVE ArgMinScan(_, _, _)
ArgMinScan(s, i, best) ==
  IF i > Len(s) THEN best
  ELSE ArgMinScan(s, i + 1, IF s[i] < s[best] THEN i ELSE best)

\* Series.idxmin(): position of the first occurrence of the minimum
idxmin(s) == ArgMinScan(s, 2, 1)

\* Series.max() / Series.min(); NaN on an empty series
SeriesMax(s) == IF s = <<>> THEN "NaN" ELSE s[idxmax(s)]

SeriesMin(s) == IF s = <<>> THEN "NaN" ELSE s[idxmin(s)]

\* Series.value_counts(): how many rows carry each distinct value
value_counts(s) ==
  [v \in {s[i] : i \in 1..Len(s)} |-> Cardinality({i \in 1..Len(s) : s[i] = v})]

\* Orders of the rows that sort_values('Humidity (%)') may return: every
\* ascending order (the default sort kind does not promise stability).
SortOrders(d) ==
  { p \in [1..Len(d) -> 1..Len(d)] :
      /\ \A i, j \in 1..Len(d) : i # j => p[i] # p[j]
      /\ \A i \in 1..(Len(d) - 1) : d[p[i]].Humidity <= d[p[i + 1]].Humidity }

\* the frame sort_values returns for the order p
sort_values(d, p) == [i \in 1..Len(d) |-> d[p[i]]]

df_after_sort_inplace(d, sorted) == sorted

\* what `df` is bound to after `df_sorted = df.sort_values(...)`: the call
\* returns a new frame and leaves the one it was called on as it was
df_after_sort(d, sorted) == d

AfterEmptyCheckNoExit(d) == "panel1"

\* `if df.empty: ... exit()`
AfterEmptyCheck(d) == IF d = <<>> THEN "exited" ELSE "panel1"

(***************************************************************************)
(* After the loop                                                          *)
(***************************************************************************)
\* df = pd.DataFrame(weather_data) and the empty check
CreateDataFrame ==
  /\ pc = "loop"
  /\ city_index = Len(Registry)
  /\ df' = weather_data
  /\ pc' = AfterEmptyCheck(weather_data)
  /\ UNCHANGED <<city_index, requested, outcomes, weather_data, df_sorted,
                 panels, image_saved, summary>>

PanelFrame == <<city_index, requested, outcomes, weather_data, image_saved, summary>>

\* 1. bar chart of temperature per city, colour = position in min..max
Panel1 ==
  /\ pc = "panel1"
  /\ LET t == Column(df, "Temperature")
     IN panels' = Append(panels,
          [panel   |-> 1,
           x       |-> Column(df, "City"),
           heights |-> t,
           colors  |-> [i \in 1..Len(t) |->
                          [num |-> t[i] - SeriesMin(t),
                           den |-> SeriesMax(t) - SeriesMin(t)]],
           labels  |-> t])
  /\ pc' = "panel2"
  /\ UNCHANGED <<df, df_sorted>>
  /\ UNCHANGED PanelFrame

\* 2. scatter of temperature against humidity, one annotation per city
Panel2 ==
  /\ pc = "panel2"
  /\ panels' = Append(panels,
       [panel |-> 2,
        x     |-> Column(df, "Temperature"),
        y     |-> Column(df, "Humidity"),
        c     |-> Column(df, "Temperature"),
        annotations |-> Column(df, "City")])
  /\ pc' = "panel3"
  /\ UNCHANGED <<df, df_sorted>>
  /\ UNCHANGED PanelFrame

\* 3. horizontal bars of humidity, ascending
Panel3 ==
  /\ pc = "panel3"
  /\ \E p \in SortOrders(df) :
       LET sorted == sort_values(df, p)
       IN /\ df_sorted' = sorted
          /\ df' = df_after_sort(df, sorted)
          /\ panels' = Append(panels,
               [panel  |-> 3,
                y      |-> Column(sorted, "City"),
                widths |-> Column(sorted, "Humidity"),
                colors |-> [i \in 1..Len(sorted) |->
                              [num |-> sorted[i].Humidity, den |-> 100 * 20]],
                labels |-> Column(sorted, "Humidity")])
  /\ pc' = "panel4"
  /\ UNCHANGED PanelFrame

\* 4. line of wind speed per city, area below shaded
Panel4 ==
  /\ pc = "panel4"
  /\ panels' = Append(panels,
       [panel |-> 4,
        x     |-> Column(df, "City"),
        y     |-> Column(df, "WindSpeed"),
        fill_x |-> [i \in 1..Len(df) |-> i - 1],
        fill_y |-> Column(df, "WindSpeed")])
  /\ pc' = "panel5"
  /\ UNCHANGED <<df, df_sorted>>
  /\ UNCHANGED PanelFrame

\* 5. pie of the condition labels
Panel5 ==
  /\ pc = "panel5"
  /\ panels' = Append(panels,
       [panel  |-> 5,
        counts |-> value_counts(Column(df, "Weather")),
        total  |-> Len(df)])
  /\ pc' = "panel6"
  /\ UNCHANGED <<df, df_sorted>>
  /\ UNCHANGED PanelFrame

\* 6. grouped bars, actual temperature and feels-like
Panel6 ==
  /\ pc = "panel6"
  /\ panels' = Append(panels,
       [panel  |-> 6,
        actual |-> Column(df, "Temperature"),
        feels  |-> Column(df, "FeelsLike"),
        ticks  |-> [i \in 1..Len(df) |-> i - 1],
        ticklabels |-> Column(df, "City")])
  /\ pc' = "savefig"
  /\ UNCHANGED <<df, df_sorted>>
  /\ UNCHANGED PanelFrame

\* plt.savefig('weather_dashboard.png', ...)
SaveFig ==
  /\ pc = "savefig"
  /\ image_saved' = TRUE
  /\ pc' = "summary"
  /\ UNCHANGED <<city_index, requested, outcomes, weather_data, df, df_sorted,
                 panels, summary>>

\* SUMMARY STATISTICS block; idxmax of an empty series raises ValueError
Summary ==
  /\ pc = "summary"
  /\ IF df = <<>>
       THEN /\ pc' = "crashed"
            /\ summary' = summary
       ELSE LET t == Column(df, "Temperature")
            IN /\ summary' =
                    [computed     |-> TRUE,
                     avg_temp     |-> SeriesMean(t),
                     highest      |-> SeriesMax(t),
                     highest_city |-> df[idxmax(t)].City,
                     lowest       |-> SeriesMin(t),
                     lowest_city  |-> df[idxmin(t)].City,
                     avg_humidity |-> SeriesMean(Column(df, "Humidity")),
                     avg_wind     |-> SeriesMean(Column(df, "WindSpeed"))]
               /\ pc' = "done"
  /\ UNCHANGED <<city_index, requested, outcomes, weather_data, df, df_sorted,
                 panels, image_saved>>

Next ==
  \/ FetchRequest
  \/ \E r \in Responses : FetchResolve(r)
  \/ CreateDataFrame
  \/ Panel1
  \/ Panel2
  \/ Panel3
  \/ Panel4
  \/ Panel5
  \/ Panel6
  \/ SaveFig
  \/ Summary

Spec == Init /\ [][Next]_vars

C2_EmptyTableHalts ==
  /\ (weather_data = <<>> /\ pc \notin {"loop", "awaiting"}) =>
        /\ pc = "exited"
        /\ panels = <<>>
        /\ ~image_saved
        /\ ~summary.computed
  /\ (panels # <<>> \/ image_saved \/ summary.computed) =>
        /\ df # <<>>
        /\ pc # "exited"

\* C2 witness: every city was fetched, none gave a record, the process exited.
C2_Witness ==
  /\ pc = "exited"
  /\ Len(outcomes) = Len(Registry)
  /\ weather_data = <<>>
  /\ ~image_saved

\* C3: the requests issued so far are the first cities of the registry, in
\* order, each once; a request is issued only when every earlier one has
\* resolved; and once the loop is over every city was requested, whatever
\* failed on the way.
C3_SequentialOnce ==
  /\ Len(requested) <= Len(Registry)
  /\ \A i \in 1..Len(requested) : requested[i] = Registry[i].name
  /\ Len(outcomes) = city_index
  /\ Len(requested) = Len(outcomes) + (IF pc = "awaiting" THEN 1 ELSE 0)
  /\ pc \notin {"loop", "awaiting"} => Len(requested) = Len(Registry)

\* C3 witness: the first fetch failed and the loop still went through all
\* the cities after it.
C3_Witness ==
  /\ pc = "panel1"
  /\ ~outcomes[1].ok
  /\ Len(requested) = Len(Registry)
  /\ Len(requested) > 1

\* C4: a 2xx response whose body has no "current" section raises nothing
\* and leaves no record for its city, and the loop goes on to the next city
\* with the same index step as after a failed fetch.
C4_MissingCurrentSkipped ==
  /\ pc # "crashed"
  /\ Len(outcomes) = city_index
  /\ \A i \in 1..Len(outcomes) :
       (outcomes[i].ok /\ "current" \notin DOMAIN outcomes[i].body) =>
          \A k \in 1..Len(weather_data) : weather_data[k].City # Registry[i].name

\* C4 witness: a non-empty body without "current" was skipped and the next
\* city was fetched and recorded.
C4_Witness ==
  \E i \in 1..Len(outcomes) :
    /\ i < Len(outcomes)
    /\ outcomes[i].ok
    /\ DOMAIN outcomes[i].body = {"timezone"}
    /\ "current" \in DOMAIN outcomes[i + 1].body
    /\ \E k \in 1..Len(weather_data) : weather_data[k].City = Registry[i + 1].name

\* C5: a response whose "current" section lacks some of the four fields
\* still gives a record for its city, in which every absent field is 0 and
\* an absent condition code gives code 0 with the label of code 0.
C5_AbsentFieldsDefaultToZero ==
  /\ pc # "crashed"
  /\ \A i \in 1..Len(outcomes) :
       ("current" \in DOMAIN outcomes[i].body
          /\ ~(Fields \subseteq DOMAIN outcomes[i].body["current"])) =>
         \E k \in 1..Len(weather_data) :
           LET rec == weather_data[k]
               cur == outcomes[i].body["current"]
           IN /\ rec.City = Registry[i].name
              /\ "temperature_2m" \notin DOMAIN cur => rec.Temperature = 0
              /\ "relative_humidity_2m" \notin DOMAIN cur => rec.Humidity = 0
              /\ "wind_speed_10m" \notin DOMAIN cur => rec.WindSpeed = 0
              /\ "weather_code" \notin DOMAIN cur =>
                    /\ rec.WeatherCode = 0
                    /\ rec.Weather = "Clear sky"

\* C5 witness: one response without a condition code and one with an empty
\* "current" section have both produced records.
C5_Witness ==
  /\ \E i \in 1..Len(outcomes) :
       /\ "current" \in DOMAIN outcomes[i].body
       /\ DOMAIN outcomes[i].body["current"] = Fields \ {"weather_code"}
  /\ \E i \in 1..Len(outcomes) :
       /\ "current" \in DOMAIN outcomes[i].body
       /\ DOMAIN outcomes[i].body["current"] = {}
  /\ Len(weather_data) >= 2

\* C6 as stated: get_weather_description returns the table's label for a
\* code of the table and "Unknown" for any other code, 45 and 48 both give
\* "Foggy", and a record labelled "Thunderstorm with hail" got that label
\* from one of three distinct codes giving it; every record's label is the
\* description of its code.
C6_Original ==
  /\ \A c \in -1..MaxCode :
       get_weather_description(c) =
         IF c \in DOMAIN weather_codes THEN weather_codes[c] ELSE "Unknown"
  /\ get_weather_description(45) = "Foggy"
  /\ get_weather_description(48) = "Foggy"
  /\ \A k \in 1..Len(weather_data) :
       weather_data[k].Weather = "Thunderstorm with hail" =>
         Cardinality({c \in -1..MaxCode :
                        get_weather_description(c) = "Thunderstorm with hail"}) = 3
  /\ \A k \in 1..Len(weather_data) :
       weather_data[k].Weather = get_weather_description(weather_data[k].WeatherCode)

\* C6 amended: as above, but exactly two codes, 96 and 99, give
\* "Thunderstorm with hail".
C6_Amended ==
  /\ \A c \in -1..MaxCode :
       get_weather_description(c) =
         IF c \in DOMAIN weather_codes THEN weather_codes[c] ELSE "Unknown"
  /\ get_weather_description(45) = "Foggy"
  /\ get_weather_description(48) = "Foggy"
  /\ {c \in -1..MaxCode : get_weather_description(c) = "Thunderstorm with hail"}
        = {96, 99}
  /\ \A k \in 1..Len(weather_data) :
       LET rec == weather_data[k]
       IN /\ rec.WeatherCode \in {45, 48} => rec.Weather = "Foggy"
          /\ rec.WeatherCode = 96 => rec.Weather = "Thunderstorm with hail"
          /\ rec.Weather = "Thunderstorm with hail" => rec.WeatherCode \in {96, 99}
          /\ rec.WeatherCode = 0 => rec.Weather = "Clear sky"
          /\ rec.WeatherCode \notin DOMAIN weather_codes => rec.Weather = "Unknown"

\* C6 witness: the table holds a foggy record, a hail record and a record
\* with a code outside the table.
C6_Witness ==
  /\ \E k \in 1..Len(weather_data) :
       weather_data[k].WeatherCode = 45 /\ weather_data[k].Weather = "Foggy"
  /\ \E k \in 1..Len(weather_data) :
       weather_data[k].WeatherCode = 96
  /\ \E k \in 1..Len(weather_data) :
       weather_data[k].WeatherCode = 7 /\ weather_data[k].Weather = "Unknown"

\* C7: every record's feels-like value is its own temperature minus half
\* its own wind speed.
C7_FeelsLike ==
  \A k \in 1..Len(weather_data) :
    2 * weather_data[k].FeelsLike =
      2 * weather_data[k].Temperature - weather_data[k].WindSpeed

\* C7 witness: the table holds a record with a negative temperature and
\* wind, one with zero wind, and one whose temperature was defaulted.
C7_Witness ==
  /\ \E k \in 1..Len(weather_data) :
       /\ weather_data[k].Temperature < 0
       /\ weather_data[k].WindSpeed > 0
       /\ weather_data[k].FeelsLike < weather_data[k].Temperature
  /\ \E k \in 1..Len(weather_data) :
       /\ weather_data[k].WindSpeed = 0
       /\ weather_data[k].Temperature # 0
  /\ \E i \in 1..Len(outcomes) :
       /\ "current" \in DOMAIN outcomes[i].body
       /\ DOMAIN outcomes[i].body["current"] = Fields \ {"temperature_2m"}
       /\ \E k \in 1..Len(weather_data) :
            /\ weather_data[k].City = Registry[i].name
            /\ weather_data[k].FeelsLike < 0

\* C8: the reported highest (lowest) city is the earliest row whose
\* temperature is the maximum (minimum) of the column, and the reported
\* mean temperature is the sum of the column over the number of rows.
C8_SummaryStatistics ==
  summary.computed =>
    LET t == Column(df, "Temperature")
        n == Len(df)
        isMax(i) == \A j \in 1..n : t[j] <= t[i]
        isMin(i) == \A j \in 1..n : t[j] >= t[i]
        sum[i \in 0..n] == IF i = 0 THEN 0 ELSE sum[i - 1] + t[i]
    IN /\ n > 0
       /\ \E i \in 1..n :
            /\ isMax(i)
            /\ \A j \in 1..(i - 1) : ~isMax(j)
            /\ summary.highest = t[i]
            /\ summary.highest_city = df[i].City
       /\ \E i \in 1..n :
            /\ isMin(i)
            /\ \A j \in 1..(i - 1) : ~isMin(j)
            /\ summary.lowest = t[i]
            /\ summary.lowest_city = df[i].City
       /\ summary.avg_temp.sum = sum[n]
       /\ summary.avg_temp.count = n

\* C8 witness: statistics were computed over a table of three or more rows
\* in which two rows tie for the maximum, above the minimum, and the
\* earlier one was reported.
C8_Witness ==
  /\ summary.computed
  /\ Len(df) >= 3
  /\ \E i, j \in 1..Len(df) :
       /\ i < j
       /\ df[i].Temperature = df[j].Temperature
       /\ df[i].Temperature = summary.highest
       /\ summary.highest # summary.lowest
       /\ summary.highest_city = df[i].City
       /\ summary.highest_city # df[j].City

\* C9 as stated: no record is built from a response in which one of the
\* four fields is absent, i.e. no field of any record took its zero default.
C9_Original ==
  \A i \in 1..Len(outcomes) :
    (\E k \in 1..Len(weather_data) : weather_data[k].City = Registry[i].name) =>
       Fields \subseteq DOMAIN outcomes[i].body["current"]

\* C9 amended: the guard keeps a record from being built exactly when the
\* response has no "current" section; when it has one a record is built
\* and each field holds the reported value if the section has it and the
\* zero default if, and only if, the section lacks it.
C9_Amended ==
  \A i \in 1..Len(outcomes) :
    LET built == {k \in 1..Len(weather_data) : weather_data[k].City = Registry[i].name}
        present == outcomes[i].ok /\ "current" \in DOMAIN outcomes[i].body
    IN /\ (built # {}) <=> present
       /\ \A k \in built :
            LET rec == weather_data[k]
                cur == outcomes[i].body["current"]
                val(f) == IF f \in DOMAIN cur THEN cur[f] ELSE 0
            IN /\ rec.Temperature = val("temperature_2m")
               /\ rec.Humidity = val("relative_humidity_2m")
               /\ rec.WindSpeed = val("wind_speed_10m")
               /\ rec.WeatherCode = val("weather_code")

\* C9 witness: a record was built from a section lacking the wind speed,
\* next to one built from a complete section.
C9_Witness ==
  /\ \E i \in 1..Len(outcomes) :
       /\ "current" \in DOMAIN outcomes[i].body
       /\ "wind_speed_10m" \notin DOMAIN outcomes[i].body["current"]
       /\ "temperature_2m" \in DOMAIN outcomes[i].body["current"]
       /\ \E k \in 1..Len(weather_data) :
            /\ weather_data[k].City = Registry[i].name
            /\ weather_data[k].WindSpeed = 0
            /\ weather_data[k].Temperature = 300
  /\ \E i \in 1..Len(outcomes) :
       /\ "current" \in DOMAIN outcomes[i].body
       /\ Fields \subseteq DOMAIN outcomes[i].body["current"]

\* C10: from the moment the table is built it stays equal to the list of
\* records in registry order, through the humidity sort and everything
\* after it; panel 4, panel 6 and the statistics are taken from the rows in
\* that order.
C10_TableUnchangedByRendering ==
  pc \notin {"loop", "awaiting", "crashed"} =>
    LET pos(name) == CHOOSE i \in 1..Len(Registry) : Registry[i].name = name
    IN /\ df = weather_data
       /\ \A a, b \in 1..Len(df) : a < b => pos(df[a].City) < pos(df[b].City)
       /\ Len(panels) >= 4 =>
            /\ panels[4].x = Column(weather_data, "City")
            /\ panels[4].y = Column(weather_data, "WindSpeed")
       /\ Len(panels) >= 6 =>
            /\ panels[6].ticklabels = Column(weather_data, "City")
            /\ panels[6].actual = Column(weather_data, "Temperature")
            /\ panels[6].feels = Column(weather_data, "FeelsLike")
       /\ summary.computed =>
            \E i \in 1..Len(weather_data) :
              /\ weather_data[i].City = summary.highest_city
              /\ weather_data[i].Temperature = summary.highest

\* C10 witness: the run is complete and the humidity sort returned the rows
\* in an order other than the table's.
C10_Witness ==
  /\ pc = "done"
  /\ Len(df) >= 2
  /\ df_sorted # df
  /\ Len(panels) = 6
  /\ panels[3].y # panels[4].x
====
